---- MODULE Spec2Model ----
(***************************************************************************)
(* Model of the calibrated time-series fusion core of GNSS_RR              *)
(* (src/functions.py): the discontinuity corrector, the rolling outlier    *)
(* filter and the aggregation of filter_rtklib_solutions and               *)
(* filter_gnssir, the density estimator convert_swesh2density, the readers *)
(* get_rtklib_solutions and read_gnssir, the exponential regression of     *)
(* mass over height and the error propagation of the density, with the     *)
(* calls of SWE_postproc_RTKLIB_Neumayer.py that connect them.             *)
(*                                                                         *)
(* A series is a sequence of records [t, v], strictly increasing in t.     *)
(* Time is counted in ticks; values are integers (mm) or NaN.  Medians,    *)
(* variances and densities are kept exact: floating-point rounding is not  *)
(* modelled.                                                               *)
(***************************************************************************)
EXTENDS Integers, Sequences, FiniteSets, TLC

-----------------------------------------------------------------------------
(* Bounds of the model *)

\* longest input series
MaxLen == 4
\* ticks in one 15-minute bucket
TicksPerBucket == 2
\* 15-minute buckets in one calendar day
BucketsPerDay == 2
\* longest daily series handed to the density estimator
MaxDays == 2

-----------------------------------------------------------------------------
(* Program constants *)

\* u.diff() < -1000 / > 1000 in filter_rtklib_solutions
JumpRtklib == 1000
\* gnssir_rh.diff() > 2500 in filter_gnssir
JumpGnssir == 2500
\* rolling('3D')
WindowDays == 3
\* density floor: density of new snow
DensityMin == 50
\* density ceiling: density of firn
DensityMax == 830
\* (swe * 1000)
DensityFactor == 1000

TicksPerDay == TicksPerBucket * BucketsPerDay
Window == WindowDays * TicksPerDay
\* pd.Timedelta(seconds=18), at the model's resolution of one tick
LeapShift == (TicksPerBucket + 1) \div 3

\* the float NaN (missing value)
NaN == -99999999
IsNaN(x) == x = NaN

Sub(a, b) == IF IsNaN(a) \/ IsNaN(b) THEN NaN ELSE a - b
Lt(a, b) == ~IsNaN(a) /\ ~IsNaN(b) /\ a < b
Gt(a, b) == ~IsNaN(a) /\ ~IsNaN(b) /\ a > b

-----------------------------------------------------------------------------
(* pandas Series primitives *)

RECURSIVE KeepFrom(_, _, _)
KeepFrom(s, I, i) ==
  IF i > Len(s) THEN <<>>
  ELSE (IF i \in I THEN <<s[i]>> ELSE <<>>) \o KeepFrom(s, I, i + 1)

\* boolean-mask selection s[mask]: the rows whose position is in I, in order
Keep(s, I) == KeepFrom(s, I, 1)

\* Series.diff(): NaN at the first row
Diff(s, i) == IF i = 1 THEN NaN ELSE Sub(s[i].v, s[i - 1].v)

Times(s) == {s[i].t : i \in 1..Len(s)}
DayOf(t) == t \div TicksPerDay
IsMidnight(t) == t % TicksPerDay = 0

\* s[s.index >= t] and s[~(s.index >= t)]
FromTime(s, t) == Keep(s, {i \in 1..Len(s) : s[i].t >= t})
BeforeTime(s, t) == Keep(s, {i \in 1..Len(s) : ~(s[i].t >= t)})

\* Series.drop(label)
Drop(s, t) == Keep(s, {i \in 1..Len(s) : s[i].t # t})

\* DatetimeIndex.format(): the strings carry the date only when every
\* timestamp of the index is at midnight, else date and time of day
FormatRes(s) == IF \A i \in 1..Len(s) : IsMidnight(s[i].t) THEN "day" ELSE "second"
Format(s, i) == [res |-> FormatRes(s), t |-> s[i].t]

\* resolution of a DatetimeIndex: of the finest timestamp it holds
IndexRes(s) == IF \A i \in 1..Len(s) : IsMidnight(s[i].t) THEN "day" ELSE "second"

\* a date-only string used as a key of an index of finer resolution selects
\* the whole day (partial string indexing)
IsPartial(s, key) == key.res = "day" /\ IndexRes(s) # "day"

\* s[key] for a string key: a scalar on an exact match, the rows of the day
\* on a partial match
GetItem(s, key) ==
  IF IsPartial(s, key)
  THEN [kind |-> "series",
        ser |-> Keep(s, {i \in 1..Len(s) : DayOf(s[i].t) = DayOf(key.t)})]
  ELSE [kind |-> "scalar",
        val |-> s[CHOOSE i \in 1..Len(s) : s[i].t = key.t].v]

\* s[:key] for a string key: up to the end of the period the string names
SliceTo(s, key) ==
  IF key.res = "day"
  THEN Keep(s, {i \in 1..Len(s) : DayOf(s[i].t) <= DayOf(key.t)})
  ELSE Keep(s, {i \in 1..Len(s) : s[i].t <= key.t})

\* the value of series s at time t, NaN when t is no label of s
At(s, t) ==
  IF t \in Times(s) THEN s[CHOOSE i \in 1..Len(s) : s[i].t = t].v ELSE NaN

RECURSIVE SortedTimes(_)
SortedTimes(T) ==
  IF T = {} THEN <<>>
  ELSE LET m == CHOOSE x \in T : \A y \in T : x <= y
       IN <<m>> \o SortedTimes(T \ {m})

\* Series - scalar: every row, NaN stays NaN
SeriesMinusScalar(s, x) == [i \in 1..Len(s) |-> [t |-> s[i].t, v |-> Sub(s[i].v, x)]]

RECURSIVE JoinRows(_, _, _)
JoinRows(a, b, idx) ==
  IF idx = <<>> THEN <<>>
  ELSE LET t == Head(idx)
           rows == Keep(a, {i \in 1..Len(a) : a[i].t = t})
       IN (IF rows = <<>> THEN <<[t |-> t, v |-> NaN]>>
           ELSE [k \in 1..Len(rows) |-> [t |-> t, v |-> Sub(rows[k].v, At(b, t))]])
          \o JoinRows(a, b, Tail(idx))

\* Series - Series: the operands are aligned by an outer join of their
\* indexes, sorted by label: every row of a keeps its place under its
\* label, a label of b that a lacks gives one NaN row, a label b lacks
\* gives NaN (the index of b is unique)
SeriesMinusSeries(a, b) == JoinRows(a, b, SortedTimes(Times(a) \cup Times(b)))

\* s - jv where jv is the scalar or the Series held in jump_val
Minus(s, jv) ==
  IF jv.kind = "scalar" THEN SeriesMinusScalar(s, jv.val)
  ELSE SeriesMinusSeries(s, jv.ser)

-----------------------------------------------------------------------------
(* Input series *)

\* values are multiples of Unit (mm); statistics are computed on v / Unit
Unit == JumpRtklib \div 2

Gaps == {1, TicksPerDay, Window + 1}
DiffsRtklib == {-3000, -1500, 500, 3000}
DiffsGnssir == {-3000, 500, 3000, 4500}
Diffs(sn) == IF sn = "rtklib" THEN DiffsRtklib ELSE DiffsGnssir

RECURSIVE SeriesOfLen(_, _)
SeriesOfLen(n, D) ==
  IF n = 1 THEN {<<[t |-> t0, v |-> 0]>> : t0 \in {0, TicksPerDay - 1}}
  ELSE {Append(s, [t |-> s[Len(s)].t + g, v |-> s[Len(s)].v + d]) :
          s \in SeriesOfLen(n - 1, D), g \in Gaps, d \in D}

InputSeries(sn) == UNION {SeriesOfLen(n, Diffs(sn)) : n \in 1..MaxLen}

-----------------------------------------------------------------------------
(* Discontinuity corrector *)

\* u.diff() < -T and u.diff() > T as sets of positions
NegJumps(s, T) == {i \in 1..Len(s) : Lt(Diff(s, i), 0 - T)}
PosJumps(s, T) == {i \in 1..Len(s) : Gt(Diff(s, i), T)}

\* u[u.index > t].head(1)
NextLine(s, t) ==
  LET later == Keep(s, {j \in 1..Len(s) : s[j].t > t})
  IN IF later = <<>> THEN <<>> ELSE <<later[1]>>

\* for i, j in enumerate(jump_or_outlier): drop the sample when the next
\* row is back below it by more than the threshold; next_line[0] raises
\* on the last row
RECURSIVE DropPositive(_, _, _)
DropPositive(s, cand, i) ==
  IF i > Len(cand) THEN [ok |-> TRUE, u |-> s]
  ELSE LET next_line == NextLine(s, cand[i].t)
       IN IF next_line = <<>> THEN [ok |-> FALSE, u |-> s]
          ELSE IF Lt(next_line[1].v, cand[i].v - JumpRtklib)
               THEN DropPositive(Drop(s, cand[i].t), cand, i + 1)
               ELSE DropPositive(s, cand, i + 1)

\* for i, j in enumerate(value_after_jump): the mirror image
RECURSIVE DropNegative(_, _, _)
DropNegative(s, cand, i) ==
  IF i > Len(cand) THEN [ok |-> TRUE, u |-> s]
  ELSE LET next_line == NextLine(s, cand[i].t)
       IN IF next_line = <<>> THEN [ok |-> FALSE, u |-> s]
          ELSE IF Gt(next_line[1].v, cand[i].v + JumpRtklib)
               THEN DropNegative(Drop(s, cand[i].t), cand, i + 1)
               ELSE DropNegative(s, cand, i + 1)

\* Jump with the thresholds doubled
Jump_WrongThreshold(sn, s) ==
  IF sn = "rtklib" THEN Keep(s, NegJumps(s, 2 * JumpRtklib))
  ELSE Keep(s, PosJumps(s, 2 * JumpGnssir))

\* jump = u.diff()[(u.diff() < -1000)]  /  gnssir_rh[(gnssir_rh.diff() > 2500)]
\* (only the index of jump is used)
Jump(sn, s) ==
  IF sn = "rtklib" THEN Keep(s, NegJumps(s, JumpRtklib))
  ELSE Keep(s, PosJumps(s, JumpGnssir))

\* jump_ind = jump.index.format()[0]
JumpInd(jump) == Format(jump, 1)

\* jump_val = u[jump_ind] - u[:jump_ind][-2]
JumpVal(s, jump_ind) ==
  LET after == GetItem(s, jump_ind)
      upto == SliceTo(s, jump_ind)
      before == upto[Len(upto) - 1].v
  IN IF after.kind = "scalar"
     THEN [kind |-> "scalar", val |-> Sub(after.val, before)]
     ELSE [kind |-> "series", ser |-> SeriesMinusScalar(after.ser, before)]

\* one iteration of the while loop:
\*   adj = u[(u.index >= jump.index.format()[0])] - jump_val
\*   u = pd.concat([u[~(u.index >= jump.index.format()[0])], adj])
CorrectStep(s, jump, jv) ==
  LET t0 == Format(jump, 1).t
  IN BeforeTime(s, t0) \o Minus(FromTime(s, t0), jv)

-----------------------------------------------------------------------------
(* Rolling statistics and the outlier filter *)

RECURSIVE Insert(_, _)
Insert(x, sorted) ==
  IF sorted = <<>> THEN <<x>>
  ELSE IF x <= Head(sorted) THEN <<x>> \o sorted
       ELSE <<Head(sorted)>> \o Insert(x, Tail(sorted))

RECURSIVE SortVals(_)
SortVals(vals) == IF vals = <<>> THEN <<>> ELSE Insert(Head(vals), SortVals(Tail(vals)))

RECURSIVE Sum(_)
Sum(vals) == IF vals = <<>> THEN 0 ELSE Head(vals) + Sum(Tail(vals))

RECURSIVE SumSq(_)
SumSq(vals) == IF vals = <<>> THEN 0 ELSE Head(vals) * Head(vals) + SumSq(Tail(vals))

\* the values of s, NaN skipped, in units of Unit
Vals(s) ==
  LET k == Keep(s, {i \in 1..Len(s) : ~IsNaN(s[i].v)})
  IN [i \in 1..Len(k) |-> k[i].v \div Unit]

\* twice the median of a non-empty list of values
Median2(vals) ==
  LET n == Len(vals)
      srt == SortVals(vals)
  IN IF n % 2 = 1 THEN 2 * srt[(n + 1) \div 2]
     ELSE srt[n \div 2] + srt[n \div 2 + 1]

\* the sample variance (ddof = 1) is VarNum / (n * (n - 1)); undefined for n < 2
VarNum(vals) == Len(vals) * SumSq(vals) - Sum(vals) * Sum(vals)

\* WindowOf for rolling('3D', center=True): the rows less than 3 days away
\* on either side
WindowOf_Centered(s, i) ==
  Keep(s, {j \in 1..Len(s) : s[j].t > s[i].t - Window /\ s[j].t < s[i].t + Window})

\* the rows of the trailing window (t - 3D, t] of row i: the rows up to
\* and including row i that are less than 3 days older
WindowOf(s, i) == Keep(s, {j \in 1..i : s[j].t > s[i].t - Window})

\* rolling('3D') raises ValueError unless the index is monotonic
IsMonotonic(s) == \A i \in 1..(Len(s) - 1) : s[i].t <= s[i + 1].t

\* u.rolling('3D').std() at row i, as the variance <<numerator, denominator>>
\* in units of Unit squared: missing when the window holds fewer than two
\* values
RollingVar(s, i) ==
  LET w == Vals(WindowOf(s, i))
  IN IF Len(w) < 2 THEN <<>> ELSE <<VarNum(w), Len(w) * (Len(w) - 1)>>

\* InLimits with a standard deviation of 0 for a window of fewer than two
\* values and the bounds included
InLimits_ZeroStd(s, i, kn, kd) ==
  LET w == Vals(WindowOf(s, i))
      n == Len(w)
      x == s[i].v \div Unit
      dev == 2 * x - Median2(w)
  IN /\ ~IsNaN(s[i].v)
     /\ kn > 0
     /\ IF n < 2 THEN dev = 0
        ELSE dev * dev * kd * kd * n * (n - 1) < 4 * kn * kn * VarNum(w)

\* (u > lower_limit) & (u < upper_limit) at row i, for the sigma multiplier
\* kn / kd: median - k * std < u < median + k * std over the row's window
InLimits(s, i, kn, kd) ==
  LET w == Vals(WindowOf(s, i))
      n == Len(w)
      x == s[i].v \div Unit
      dev == 2 * x - Median2(w)
  IN /\ ~IsNaN(s[i].v)
     /\ n >= 2
     /\ kn > 0
     /\ dev * dev * kd * kd * n * (n - 1) < 4 * kn * kn * VarNum(w)

\* OutlierFilter as u.where(mask): rejected rows are blanked, not removed
OutlierFilter_Masked(s, kn, kd) ==
  [i \in 1..Len(s) |->
     IF InLimits(s, i, kn, kd) THEN s[i] ELSE [t |-> s[i].t, v |-> NaN]]

\* u_clean = u[(u > lower_limit) & (u < upper_limit)]
OutlierFilter(s, kn, kd) == Keep(s, {i \in 1..Len(s) : InLimits(s, i, kn, kd)})

-----------------------------------------------------------------------------
(* Aggregation *)

\* one bucket of resample(width): median (doubled) and variance of the rows
\* in [b * width, (b + 1) * width); both missing when the bucket is empty
Bucket(s, width, b) ==
  LET rows == Keep(s, {i \in 1..Len(s) : s[i].t \div width = b})
      vals == Vals(rows)
      n == Len(vals)
  IN [t |-> b * width,
      v |-> IF n = 0 THEN NaN ELSE Unit * Median2(vals),
      var |-> IF n < 2 THEN <<>> ELSE <<VarNum(vals), n * (n - 1)>>]

\* Resample ending one bucket early when the rows span several buckets
Resample_ShortByOne(s, width) ==
  IF s = <<>> THEN <<>>
  ELSE LET first == s[1].t \div width
           last == s[Len(s)].t \div width
           n == IF last = first THEN 1 ELSE last - first
       IN [k \in 1..n |-> Bucket(s, width, first + k - 1)]

\* Resample keeping only the buckets that hold a row
Resample_DropEmpty(s, width) ==
  IF s = <<>> THEN <<>>
  ELSE LET first == s[1].t \div width
           last == s[Len(s)].t \div width
           all == [k \in 1..(last - first + 1) |-> Bucket(s, width, first + k - 1)]
       IN Keep(all, {k \in 1..Len(all) : ~IsNaN(all[k].v)})

\* s.resample(width): one row per bucket from the bucket of the first row
\* to the bucket of the last row
Resample(s, width) ==
  IF s = <<>> THEN <<>>
  ELSE LET first == s[1].t \div width
           last == s[Len(s)].t \div width
       IN [k \in 1..(last - first + 1) |-> Bucket(s, width, first + k - 1)]

\* .dropna()
DropNa(s) == Keep(s, {i \in 1..Len(s) : ~IsNaN(s[i].v)})

\* swe_gnss = u_clean - baseline_length; index + 18 s
SweGnss(clean, baseline_length) ==
  [i \in 1..Len(clean) |->
     [t |-> clean[i].t + LeapShift, v |-> Sub(clean[i].v, baseline_length)]]

\* gnssir_rh_clean.resample('15min').median().dropna(), values doubled
RhClean15(clean) ==
  LET r == DropNa(Resample(clean, TicksPerBucket))
  IN [i \in 1..Len(r) |-> [t |-> r[i].t, v |-> r[i].v]]

\* gnssir_acc = gnssir_rh_clean_daily[0] - gnssir_rh_clean + acc0, in
\* quarters of a mm (rh15 holds doubled values, its daily median is doubled
\* again)
GnssirAcc(rh15, acc0) ==
  LET daily0 == Resample(rh15, TicksPerDay)[1].v
  IN [i \in 1..Len(rh15) |->
        [t |-> rh15[i].t, v |-> Sub(daily0, 2 * rh15[i].v) + 4 * acc0]]

-----------------------------------------------------------------------------
(* Density estimator *)

\* one row of (swe * 1000).divide(sh, axis=0): float division, so a zero
\* divisor gives inf, -inf or NaN and never raises
Divide(t, a, b) ==
  IF IsNaN(a) \/ IsNaN(b) THEN [t |-> t, kind |-> "nan", n |-> 0, d |-> 1]
  ELSE IF b = 0
       THEN IF a > 0 THEN [t |-> t, kind |-> "inf", n |-> 0, d |-> 1]
            ELSE IF a < 0 THEN [t |-> t, kind |-> "-inf", n |-> 0, d |-> 1]
            ELSE [t |-> t, kind |-> "nan", n |-> 0, d |-> 1]
       ELSE IF b > 0 THEN [t |-> t, kind |-> "fin", n |-> a * DensityFactor, d |-> b]
            ELSE [t |-> t, kind |-> "fin", n |-> 0 - a * DensityFactor, d |-> 0 - b]

\* DensityOf with .divide(sh, axis=0, fill_value=...): a label that one of
\* the series lacks takes a default mass of 100 or a default height of 1000
DensityOf_FillValue(sw, sh_) ==
  LET idx == SortedTimes(Times(sw) \cup Times(sh_))
      all == [i \in 1..Len(idx) |->
                Divide(idx[i],
                       IF idx[i] \in Times(sw) THEN At(sw, idx[i]) ELSE 100,
                       IF idx[i] \in Times(sh_) THEN At(sh_, idx[i]) ELSE 1000)]
  IN Keep(all, {i \in 1..Len(all) : all[i].kind # "nan"})

\* density = ((swe * 1000).divide(sh, axis=0)).dropna(): the rows are
\* aligned on the union of the two indexes
DensityOf(sw, sh_) ==
  LET idx == SortedTimes(Times(sw) \cup Times(sh_))
      all == [i \in 1..Len(idx) |-> Divide(idx[i], At(sw, idx[i]), At(sh_, idx[i]))]
  IN Keep(all, {i \in 1..Len(all) : all[i].kind # "nan"})

\* density_fil < 50
BelowFloor(r) == r.kind = "-inf" \/ (r.kind = "fin" /\ r.n < DensityMin * r.d)
\* AtOrAboveCeiling with > in place of >=
AtOrAboveCeiling_Strict(r) == r.kind = "inf" \/ (r.kind = "fin" /\ r.n > DensityMax * r.d)

\* density_fil >= 830
AtOrAboveCeiling(r) == r.kind = "inf" \/ (r.kind = "fin" /\ r.n >= DensityMax * r.d)

\* DensityCleaned without the upper bound
DensityCleaned_FloorOnly(dens) ==
  Keep(dens, {i \in 1..Len(dens) : ~BelowFloor(dens[i])})

\* density_cleaned = density_fil[~((density_fil < 50) | (density_fil >= 830))]
DensityCleaned(dens) ==
  Keep(dens, {i \in 1..Len(dens) : ~(BelowFloor(dens[i]) \/ AtOrAboveCeiling(dens[i]))})

SweValues == {NaN, -100, 0, 49, 50, 100, 1660}
ShValues == {NaN, -1000, 0, 1000, 2000}

RECURSIVE DailySeries(_, _)
DailySeries(days, V) ==
  IF days = 0 THEN {<<>>}
  ELSE LET shorter == DailySeries(days - 1, V)
       IN shorter \cup
          {Append(s, [t |-> (days - 1) * TicksPerDay, v |-> x]) : s \in shorter, x \in V}

-----------------------------------------------------------------------------
(* State *)

VARIABLES
  sensor,       \* "rtklib" (filter_rtklib_solutions) or "gnssir" (filter_gnssir)
  pc,           \* position in the function body
  u0,           \* the selected, sorted series (u / gnssir_rh before correction)
  u,            \* u / gnssir_rh
  u_in,         \* the series on entry to the while loop
  jump_val,     \* jump_val
  log,          \* the 'jump of ... is detected! at ...' lines printed so far
  threshold,    \* the sigma multiplier <<numerator, denominator>>
  u_clean,      \* u_clean / gnssir_rh_clean before resampling
  rh15,         \* gnssir_rh_clean after the 15-minute resample (values doubled)
  series,       \* swe_gnss / gnssir_acc (gnssir_acc in quarters)
  daily,        \* swe_gnss_daily, std_gnss_daily / gnssir_acc_daily, _std
  err,          \* the exception that ended the call, "" if none
  pass,         \* number of the call: 2 when the corrector runs on its own
                \* output or the reader runs on its own pickle
  swe,          \* convert_swesh2density: swe
  sh,           \* convert_swesh2density: sh
  density,      \* convert_swesh2density: density
  density_cleaned

VARIABLES
  pickle,       \* get_rtklib_solutions / read_gnssir: the stored frame (.pkl)
  files,        \* the solution files in the directory that is read
  df_total,     \* df_enu_total / df_rh before the duplicates are removed
  df_enu,       \* the frame returned by get_rtklib_solutions / read_gnssir
  fil_df,       \* filter_rtklib_solutions: fil_df after sort_index
  swe_gnss,     \* main script: swe_gnss of the rtklib call
  swe_gnss_daily, \* main script: swe_gnss_daily of the rtklib call
  swe_over_sh,  \* main script: the joined (height, mass) table
  fit_input,    \* exponential_regression: function, x_data, y_data, sigma
  exp_fit,      \* exponential_regression: the returned list
  density_err   \* func_err_prop / func_err_prop2: the returned frame

readVars == <<pickle, files, df_total, df_enu, fil_df>>
pipelineVars == <<swe_gnss, swe_gnss_daily>>
fitVars == <<swe_over_sh, fit_input, exp_fit, density_err>>

vars == <<sensor, pc, u0, u, u_in, jump_val, log, threshold, u_clean, rh15,
          series, daily, err, pass, swe, sh, density, density_cleaned,
          readVars, pipelineVars, fitVars>>

densityVars == <<pass, swe, sh, density, density_cleaned>>
otherVars == <<readVars, pipelineVars, fitVars>>

\* the variables of the stages that are not running
Idle ==
  /\ pickle = <<>>
  /\ files = {}
  /\ df_total = <<>>
  /\ df_enu = <<>>
  /\ fil_df = <<>>
  /\ swe_gnss = <<>>
  /\ swe_gnss_daily = <<>>
  /\ swe_over_sh = <<>>
  /\ fit_input = <<>>
  /\ exp_fit = <<>>
  /\ density_err = <<>>

\* iterations of the while loop explored
MaxIter == 6

NoValue == [kind |-> "none"]

\* threshold arguments: those of the calls in SWE_postproc_RTKLIB_Neumayer.py
\* and, as any caller may pass them, a zero and a negative multiplier
Thresholds(sn) ==
  (IF sn = "rtklib" THEN {<<19, 10>>, <<3, 1>>} ELSE {<<2, 1>>})
    \cup {<<0, 1>>, <<-1, 1>>}
BaselineLengths == {0, 2 * Unit}
AccAtFirstObs == {0, Unit}

Init ==
  /\ sensor \in {"rtklib", "gnssir"}
  /\ u0 \in InputSeries(sensor)
  /\ u = u0
  /\ pc = IF sensor = "rtklib" THEN "drop_pos" ELSE "detect"
  /\ u_in = <<>>
  /\ jump_val = NoValue
  /\ log = <<>>
  /\ threshold = <<>>
  /\ u_clean = <<>>
  /\ rh15 = <<>>
  /\ series = <<>>
  /\ daily = <<>>
  /\ err = ""
  /\ pass = 1
  /\ swe = <<>>
  /\ sh = <<>>
  /\ density = <<>>
  /\ density_cleaned = <<>>
  /\ Idle

\* filter_rtklib_solutions: the first for loop
DropPositiveOutliers ==
  /\ pc = "drop_pos"
  /\ LET r == DropPositive(u, Keep(u, PosJumps(u, JumpRtklib)), 1)
     IN /\ u' = r.u
        /\ pc' = IF r.ok THEN "drop_neg" ELSE "error"
        /\ err' = IF r.ok THEN "" ELSE "IndexError"
  /\ UNCHANGED <<sensor, u0, u_in, jump_val, log, threshold, u_clean, rh15,
                 series, daily, densityVars, otherVars>>

\* filter_rtklib_solutions: the second for loop
DropNegativeOutliers ==
  /\ pc = "drop_neg"
  /\ LET r == DropNegative(u, Keep(u, NegJumps(u, JumpRtklib)), 1)
     IN /\ u' = r.u
        /\ pc' = IF r.ok THEN "detect" ELSE "error"
        /\ err' = IF r.ok THEN "" ELSE "IndexError"
  /\ UNCHANGED <<sensor, u0, u_in, jump_val, log, threshold, u_clean, rh15,
                 series, daily, densityVars, otherVars>>

\* jump, jump_ind and jump_val before the while loop; format()[0] raises
\* when jump is empty
DetectJump ==
  /\ pc = "detect"
  /\ LET jump == Jump(sensor, u)
     IN IF jump = <<>>
        THEN /\ pc' = "error"
             /\ err' = "IndexError"
             /\ UNCHANGED <<jump_val, u_in>>
        ELSE /\ pc' = "loop"
             /\ jump_val' = JumpVal(u, JumpInd(jump))
             /\ u_in' = u
             /\ UNCHANGED err
  /\ UNCHANGED <<sensor, u0, u, log, threshold, u_clean, rh15, series, daily,
                 densityVars, otherVars>>

\* CorrectJump writing the adjusted rows into the series passed in
CorrectJump_InPlace ==
  /\ pc = "loop"
  /\ Jump(sensor, u) # <<>>
  /\ Len(log) < MaxIter
  /\ u' = CorrectStep(u, Jump(sensor, u), jump_val)
  /\ u0' = u'
  /\ log' = Append(log, [t |-> Jump(sensor, u)[1].t, val |-> jump_val])
  /\ UNCHANGED <<sensor, pc, u_in, jump_val, threshold, u_clean, rh15,
                 series, daily, err, densityVars, otherVars>>

\* one iteration of while jump.empty is False
CorrectJump ==
  /\ pc = "loop"
  /\ Jump(sensor, u) # <<>>
  /\ Len(log) < MaxIter
  /\ u' = CorrectStep(u, Jump(sensor, u), jump_val)
  /\ log' = Append(log, [t |-> Jump(sensor, u)[1].t, val |-> jump_val])
  /\ UNCHANGED <<sensor, pc, u0, u_in, jump_val, threshold, u_clean, rh15,
                 series, daily, err, densityVars, otherVars>>

\* NoJumpDetected leaving the loop after the first correction (if for while)
NoJumpDetected_AfterFirst ==
  /\ pc = "loop"
  /\ log # <<>>
  /\ pc' = "filter"
  /\ UNCHANGED <<sensor, u0, u, u_in, jump_val, log, threshold, u_clean, rh15,
                 series, daily, err, densityVars, otherVars>>

\* the while loop ends: 'no jump detected!'
NoJumpDetected ==
  /\ pc = "loop"
  /\ Jump(sensor, u) = <<>>
  /\ pc' = "filter"
  /\ UNCHANGED <<sensor, u0, u, u_in, jump_val, log, threshold, u_clean, rh15,
                 series, daily, err, densityVars, otherVars>>

\* remove outliers based on x*sigma threshold (the threshold argument is
\* first read here)
RemoveOutliers ==
  /\ pc = "filter"
  /\ \E k \in Thresholds(sensor) :
       /\ threshold' = k
       /\ IF IsMonotonic(u)
          THEN /\ u_clean' = OutlierFilter(u, k[1], k[2])
               /\ pc' = "aggregate"
               /\ UNCHANGED err
          ELSE /\ pc' = "error"
               /\ err' = "ValueError"
               /\ UNCHANGED u_clean
  /\ UNCHANGED <<sensor, u0, u, u_in, jump_val, log, rh15, series, daily,
                 densityVars, otherVars>>

\* filter_rtklib_solutions: swe_gnss and its daily median and std
AggregateRtklib ==
  /\ pc = "aggregate"
  /\ sensor = "rtklib"
  /\ \E bl \in BaselineLengths :
       /\ series' = SweGnss(u_clean, bl)
       /\ daily' = Resample(SweGnss(u_clean, bl), TicksPerDay)
  /\ pc' = "done"
  /\ UNCHANGED <<sensor, u0, u, u_in, jump_val, log, threshold, u_clean, rh15,
                 err, densityVars, otherVars>>

\* filter_gnssir: 15-minute resample, accumulation, daily median and std;
\* gnssir_rh_clean_daily[0] raises on an empty series
AggregateGnssir ==
  /\ pc = "aggregate"
  /\ sensor = "gnssir"
  /\ rh15' = RhClean15(u_clean)
  /\ IF RhClean15(u_clean) = <<>>
     THEN /\ pc' = "error"
          /\ err' = "IndexError"
          /\ UNCHANGED <<series, daily>>
     ELSE /\ \E acc0 \in AccAtFirstObs :
               /\ series' = GnssirAcc(RhClean15(u_clean), acc0)
               /\ daily' = Resample(GnssirAcc(RhClean15(u_clean), acc0), TicksPerDay)
          /\ pc' = "done"
          /\ UNCHANGED err
  /\ UNCHANGED <<sensor, u0, u, u_in, jump_val, log, threshold, u_clean,
                 densityVars, otherVars>>

Next ==
  \/ DropPositiveOutliers
  \/ DropNegativeOutliers
  \/ DetectJump
  \/ CorrectJump
  \/ NoJumpDetected
  \/ RemoveOutliers
  \/ AggregateRtklib
  \/ AggregateGnssir

Spec == Init /\ [][Next]_vars

-----------------------------------------------------------------------------
(* The corrector applied to its own output *)

\* the corrected series is handed to the jump detection and loop again
Rerun ==
  /\ pc = "filter"
  /\ pass = 1
  /\ pass' = 2
  /\ u0' = u
  /\ u_in' = <<>>
  /\ jump_val' = NoValue
  /\ log' = <<>>
  /\ pc' = "detect"
  /\ UNCHANGED <<sensor, u, threshold, u_clean, rh15, series, daily, err, swe,
                 sh, density, density_cleaned, otherVars>>

NextRerun == Next \/ Rerun

SpecRerun == Init /\ [][NextRerun]_vars

-----------------------------------------------------------------------------
(* convert_swesh2density as its own run *)

InitDensity ==
  /\ sensor = "none"
  /\ pc = "density"
  /\ u0 = <<>>
  /\ u = <<>>
  /\ u_in = <<>>
  /\ jump_val = NoValue
  /\ log = <<>>
  /\ threshold = <<>>
  /\ u_clean = <<>>
  /\ rh15 = <<>>
  /\ series = <<>>
  /\ daily = <<>>
  /\ err = ""
  /\ pass = 1
  /\ swe \in DailySeries(MaxDays, SweValues)
  /\ sh \in DailySeries(MaxDays, ShValues)
  /\ density = <<>>
  /\ density_cleaned = <<>>
  /\ Idle

ConvertSwesh2Density ==
  /\ pc = "density"
  /\ density' = DensityOf(swe, sh)
  /\ density_cleaned' = DensityCleaned(DensityOf(swe, sh))
  /\ pc' = "done"
  /\ UNCHANGED <<sensor, u0, u, u_in, jump_val, log, threshold, u_clean, rh15,
                 series, daily, err, pass, swe, sh, otherVars>>

NextDensity == ConvertSwesh2Density

SpecDensity == InitDensity /\ [][NextDensity]_vars

-----------------------------------------------------------------------------
(* Reading the solutions: get_rtklib_solutions, read_gnssir and the *)
(* selection at the start of filter_rtklib_solutions                *)

\* solution files read in one call of get_rtklib_solutions
MaxFiles == 2
\* calls of a reader on the same pickle
MaxRuns == 2
\* days of the GNSS-IR solution directory: 0..MaxDay
MaxDay == 2
\* days in a year
DaysPerYear == 2

\* year and day of year (%Y%j) of day d
YearDoy(d) == [year |-> d \div DaysPerYear, doy |-> (d % DaysPerYear) + 1]

\* rows of an ENU solution file: U and amb_state at an epoch; the fixed
\* solutions (amb_state 1) carry U = 0, the float solutions (2) U = 1
EnuRows ==
  {[t |-> t, v |-> x, amb |-> x + 1] : t \in {0, TicksPerDay}, x \in {0, 1}}
\* a solution file holds increasing epochs of one processing run: one row, or
\* two rows of the same solution state
EnuFiles ==
  {<<r>> : r \in EnuRows} \cup
  {<<r, [r EXCEPT !.t = TicksPerDay]>> : r \in {q \in EnuRows : q.t = 0}}

\* the GNSS-IR solution file of day d (year_doy.txt): one or two rows whose
\* year, doy and UTCtime columns give the same second
RhFiles(d) ==
  LET r(x) == [t |-> d * TicksPerDay, v |-> x, amb |-> 1]
  IN {[year |-> YearDoy(d).year, doy |-> YearDoy(d).doy, rows |-> rows] :
        rows \in {<<r(0)>>, <<r(1)>>, <<r(0), r(1)>>}}

\* pd.concat of the frames read, in reading order
RECURSIVE Flatten(_)
Flatten(fs) == IF fs = <<>> THEN <<>> ELSE Head(fs) \o Flatten(Tail(fs))

\* DedupKeepLast with keep='first'
DedupKeepLast_First(f) ==
  Keep(f, {i \in 1..Len(f) : \A j \in 1..(i - 1) : f[j].t # f[i].t})

\* f[~f.index.duplicated(keep='last')]
DedupKeepLast(f) ==
  Keep(f, {i \in 1..Len(f) : \A j \in (i + 1)..Len(f) : f[j].t # f[i].t})

RECURSIVE InsertByTime(_, _)
InsertByTime(r, sorted) ==
  IF sorted = <<>> THEN <<r>>
  ELSE IF r.t < Head(sorted).t THEN <<r>> \o sorted
       ELSE <<Head(sorted)>> \o InsertByTime(r, Tail(sorted))

\* fil_df.sort_index()
RECURSIVE SortByTime(_)
SortByTime(f) ==
  IF f = <<>> THEN <<>>
  ELSE InsertByTime(f[Len(f)], SortByTime(SubSeq(f, 1, Len(f) - 1)))

\* glob.iglob: the files of the directory in an order the file system chooses
GlobOrders(F) ==
  {o \in [1..Cardinality(F) -> F] : \A i, j \in 1..Cardinality(F) : o[i] = o[j] => i = j}

\* old_idx_year, old_idx_doy: of the last row of the pickle, 2021 / 330 (the
\* first day of the directory) without a pickle
OldIdx(old) ==
  IF old = <<>> THEN [year |-> 0, doy |-> 1]
  ELSE YearDoy(DayOf(old[Len(old)].t))

\* the file is newer than the last entry of the pickle
IsNewer(file, old_idx) ==
  (file.year >= old_idx.year /\ file.doy > old_idx.doy) \/ file.year > old_idx.year

InitRead ==
  /\ sensor \in {"rtklib", "gnssir"}
  /\ pc = "read"
  /\ u0 = <<>>
  /\ u = <<>>
  /\ u_in = <<>>
  /\ jump_val = NoValue
  /\ log = <<>>
  /\ threshold = <<>>
  /\ u_clean = <<>>
  /\ rh15 = <<>>
  /\ series = <<>>
  /\ daily = <<>>
  /\ err = ""
  /\ pass = 1
  /\ swe = <<>>
  /\ sh = <<>>
  /\ density = <<>>
  /\ density_cleaned = <<>>
  /\ pickle = <<>>
  /\ files = {}
  /\ df_total = <<>>
  /\ df_enu = <<>>
  /\ fil_df = <<>>
  /\ swe_gnss = <<>>
  /\ swe_gnss_daily = <<>>
  /\ swe_over_sh = <<>>
  /\ fit_input = <<>>
  /\ exp_fit = <<>>
  /\ density_err = <<>>

\* RTKLIB writes a solution file into the temp directory
WritePosFile ==
  /\ pc = "read"
  /\ sensor = "rtklib"
  /\ pass <= MaxRuns
  /\ Cardinality(files) < MaxFiles
  /\ \E f \in EnuFiles \ files : files' = files \cup {f}
  /\ UNCHANGED <<sensor, pc, u0, u, u_in, jump_val, log, threshold, u_clean,
                 rh15, series, daily, err, pass, densityVars, pickle, df_total,
                 df_enu, fil_df, pipelineVars, fitVars>>

\* get_rtklib_solutions: the files of the temp directory are read in glob
\* order and moved away, appended to the pickle's rows, duplicated epochs
\* keep their last row, and the result is stored as the new pickle
GetRtklibSolutions ==
  /\ pc = "read"
  /\ sensor = "rtklib"
  /\ pass <= MaxRuns
  /\ \E o \in GlobOrders(files) :
       LET df_enu_total == pickle \o Flatten(o)
       IN /\ df_total' = df_enu_total
          /\ df_enu' = DedupKeepLast(df_enu_total)
          /\ pickle' = DedupKeepLast(df_enu_total)
  /\ files' = {}
  /\ pc' = "select"
  /\ UNCHANGED <<sensor, u0, u, u_in, jump_val, log, threshold, u_clean, rh15,
                 series, daily, err, pass, densityVars, fil_df, pipelineVars,
                 fitVars>>

\* filter_rtklib_solutions: fil_df = df_enu[amb_state == ambiguity], sorted
FilterSelect ==
  /\ pc = "select"
  /\ \E ambiguity \in {1, 2} :
       fil_df' = SortByTime(Keep(df_enu, {i \in 1..Len(df_enu) :
                                            df_enu[i].amb = ambiguity}))
  /\ pc' = "read"
  /\ pass' = pass + 1
  /\ UNCHANGED <<sensor, u0, u, u_in, jump_val, log, threshold, u_clean, rh15,
                 series, daily, err, swe, sh, density, density_cleaned, pickle,
                 files, df_total, df_enu, pipelineVars, fitVars>>

\* gnssir writes the solution file of a day that has none yet
WriteRhFile ==
  /\ pc = "read"
  /\ sensor = "gnssir"
  /\ pass <= MaxRuns
  /\ \E d \in 0..MaxDay :
       /\ \A g \in files : ~(g.year = YearDoy(d).year /\ g.doy = YearDoy(d).doy)
       /\ \E f \in RhFiles(d) : files' = files \cup {f}
  /\ UNCHANGED <<sensor, pc, u0, u, u_in, jump_val, log, threshold, u_clean,
                 rh15, series, daily, err, pass, densityVars, pickle, df_total,
                 df_enu, fil_df, pipelineVars, fitVars>>

\* read_gnssir(copy=False): the files newer than the pickle's last row are
\* read in glob order and appended to the pickle's rows, the index is rebuilt
\* from year, doy and UTCtime, duplicated epochs keep their last row, and the
\* result is stored as the new pickle; without any row the index cannot be
\* built (AttributeError)
ReadGnssir ==
  /\ pc = "read"
  /\ sensor = "gnssir"
  /\ pass <= MaxRuns
  /\ \E o \in GlobOrders(files) :
       LET sel == Keep(o, {i \in 1..Len(o) : IsNewer(o[i], OldIdx(pickle))})
           df_rh == pickle \o Flatten([i \in 1..Len(sel) |-> sel[i].rows])
       IN IF df_rh = <<>>
          THEN /\ pc' = "error"
               /\ err' = "AttributeError"
               /\ UNCHANGED <<df_total, df_enu, pickle, pass>>
          ELSE /\ df_total' = df_rh
               /\ df_enu' = DedupKeepLast(df_rh)
               /\ pickle' = DedupKeepLast(df_rh)
               /\ pass' = pass + 1
               /\ UNCHANGED <<pc, err>>
  /\ UNCHANGED <<sensor, u0, u, u_in, jump_val, log, threshold, u_clean, rh15,
                 series, daily, swe, sh, density, density_cleaned, files,
                 fil_df, pipelineVars, fitVars>>

NextRead ==
  WritePosFile \/ GetRtklibSolutions \/ FilterSelect \/ WriteRhFile \/ ReadGnssir

SpecRead == InitRead /\ [][NextRead]_vars

-----------------------------------------------------------------------------
(* Numbers of the fit and of the error propagation *)

\* A float is held exactly as a signed square root: [k |-> "fin", s, n, d]
\* is s * sqrt(n / d) with s in {-1, 0, 1} and n / d in lowest terms;
\* [k |-> "inf", s] and [k |-> "nan"] are the IEEE special values.

RECURSIVE Gcd(_, _)
Gcd(a, b) == IF b = 0 THEN a ELSE Gcd(b, a % b)

Sign(i) == IF i > 0 THEN 1 ELSE IF i < 0 THEN -1 ELSE 0

NumNaN == [k |-> "nan"]
NumInf(sg) == [k |-> "inf", s |-> sg]
\* sg * sqrt(n / d) for n >= 0, d > 0
NumFin(sg, n, d) ==
  IF n = 0 \/ sg = 0 THEN [k |-> "fin", s |-> 0, n |-> 0, d |-> 1]
  ELSE LET g == Gcd(n, d) IN [k |-> "fin", s |-> sg, n |-> n \div g, d |-> d \div g]

\* the float of the rational n / d, d > 0
NumRat(n, d) == NumFin(Sign(n), n * n, d * d)
NumInt(i) == NumRat(i, 1)

\* x / y in floating point: a zero divisor gives inf or NaN, never an error
NumDivide(x, y) ==
  IF x.k = "nan" \/ y.k = "nan" THEN NumNaN
  ELSE IF x.k = "inf"
       THEN IF y.k = "inf" THEN NumNaN
            ELSE NumInf(IF y.s < 0 THEN 0 - x.s ELSE x.s)
       ELSE IF y.k = "inf" THEN NumInt(0)
            ELSE IF y.s = 0
                 THEN IF x.s = 0 THEN NumNaN ELSE NumInf(x.s)
                 ELSE NumFin(x.s * y.s, x.n * y.d, x.d * y.n)

\* x * y in floating point: inf * 0 is NaN
NumTimes(x, y) ==
  IF x.k = "nan" \/ y.k = "nan" THEN NumNaN
  ELSE IF x.k = "inf" \/ y.k = "inf"
       THEN IF x.s = 0 \/ y.s = 0 THEN NumNaN ELSE NumInf(x.s * y.s)
       ELSE NumFin(x.s * y.s, x.n * y.n, x.d * y.d)

\* np.sqrt(x**2 + y**2)
NumRootOfSquares(x, y) ==
  IF x.k = "nan" \/ y.k = "nan" THEN NumNaN
  ELSE IF x.k = "inf" \/ y.k = "inf" THEN NumInf(1)
       ELSE NumFin(1, x.n * y.d + y.n * x.d, x.d * y.d)

RECURSIVE Pow2(_)
Pow2(e) == IF e = 0 THEN 1 ELSE 2 * Pow2(e - 1)

\* func_exp: a * np.exp(b * x) + c.  b is held in units of ln 2 per unit of
\* x, so that np.exp(b * x) is the power of two 2^(b * x)
func_exp(x, a, b, c) ==
  LET e == b * x
  IN IF e >= 0 THEN NumRat(a * Pow2(e) + c, 1)
     ELSE NumRat(a + c * Pow2(0 - e), Pow2(0 - e))

\* func_exp2: a * np.exp(b * x)
func_exp2(x, a, b) == func_exp(x, a, b, 0)

\* func_exp3: std / np.sqrt(x); the square root of a negative number is NaN
func_exp3(x, std) ==
  IF x < 0 THEN NumNaN ELSE NumDivide(NumInt(std), NumFin(Sign(x), x, 1))

-----------------------------------------------------------------------------
(* Exponential regression of mass over height *)

\* sigma = np.ones(len(x_data)) and sigma[0] = 0.000001, in millionths
SigmaOne == 1000000
SigmaAnchor == 1

\* gnssir_acc_daily.interpolate() / 1000: metres, held in hundredths (the
\* step of the height grid of the error propagation)
InMetres(v) == IF IsNaN(v) THEN NaN ELSE v \div 10

\* create_new_df(x_data, ..., y_data, ...): pd.concat(axis=1) joins the two
\* series on their dates, dropna() removes a date where either is missing,
\* set_index makes the height the index; rows [h, m] in date order
create_new_df(x_data, y_data) ==
  LET idx == SortedTimes(Times(x_data) \cup Times(y_data))
      ok == Keep([i \in 1..Len(idx) |-> [t |-> idx[i], v |-> 0]],
                 {i \in 1..Len(idx) :
                    ~IsNaN(At(x_data, idx[i])) /\ ~IsNaN(At(y_data, idx[i]))})
  IN [i \in 1..Len(ok) |-> [h |-> At(x_data, ok[i].t), m |-> At(y_data, ok[i].t)]]

\* swe_over_sh.loc[0] = [0, ...]: every row labelled 0 is overwritten, and
\* a row is appended only when no row has that label
SetLoc0(tab) ==
  IF \E i \in 1..Len(tab) : tab[i].h = 0
  THEN [i \in 1..Len(tab) |-> IF tab[i].h = 0 THEN [h |-> 0, m |-> 0] ELSE tab[i]]
  ELSE Append(tab, [h |-> 0, m |-> 0])

RECURSIVE InsertRow(_, _)
InsertRow(r, sorted) ==
  IF sorted = <<>> THEN <<r>>
  ELSE IF r.h < Head(sorted).h THEN <<r>> \o sorted
       ELSE <<Head(sorted)>> \o InsertRow(r, Tail(sorted))

\* swe_over_sh.sort_index(): ascending by height, rows of equal height in
\* their previous order
RECURSIVE SortIndex(_)
SortIndex(tab) ==
  IF tab = <<>> THEN <<>>
  ELSE InsertRow(tab[Len(tab)], SortIndex(SubSeq(tab, 1, Len(tab) - 1)))

FunctionNames == {"a * exp(b * x) + c", "a * exp(b * x)", "std/sqrt(n)", "linear"}

\* parameters of the model function
NumParams(function) ==
  IF function = "a * exp(b * x) + c" THEN 3
  ELSE IF function = "a * exp(b * x)" THEN 2 ELSE 1

\* parameter vectors the optimizer may return
Popts(function) ==
  IF function = "a * exp(b * x) + c"
  THEN {<<a, b, c>> : a \in {1, 2}, b \in {0, 1}, c \in {-2, 0}}
  ELSE IF function = "a * exp(b * x)" THEN {<<a, b>> : a \in {1, 2}, b \in {0, 1}}
       ELSE {<<2>>, <<3>>}

\* scipy.optimize.curve_fit: raises TypeError when there are fewer samples
\* than parameters and RuntimeError when the least-squares iteration does
\* not converge, else returns a parameter vector
curve_fit(function, x_data) ==
  IF Len(x_data) < NumParams(function) THEN {[kind |-> "TypeError"]}
  ELSE {[kind |-> "RuntimeError"]}
       \cup {[kind |-> "popt", popt |-> p] : p \in Popts(function)}

\* fit = func(x_data, *popt)
FitValues(function, x_data, popt) ==
  [i \in 1..Len(x_data) |->
     IF function = "a * exp(b * x) + c"
     THEN func_exp(x_data[i], popt[1], popt[2], popt[3])
     ELSE IF function = "a * exp(b * x)" THEN func_exp2(x_data[i], popt[1], popt[2])
          ELSE func_exp3(x_data[i], popt[1])]

\* sigma of the first branch of exponential_regression
Sigma(x_data, y_0) ==
  [i \in 1..Len(x_data) |-> IF i = 1 /\ y_0 = 0 THEN SigmaAnchor ELSE SigmaOne]

FitHeights == {NaN, -10, 0, 20}
FitMasses == {NaN, 0, 3}

\* a series as .interpolate() returns it: values are missing only before
\* the first valid one
IsInterpolated(s) ==
  \A i \in 1..Len(s) : IsNaN(s[i].v) => \A j \in 1..i : IsNaN(s[j].v)

\* main script, section 12, from the two interpolated daily series
InitFit ==
  /\ sensor = "none"
  /\ pc = "join"
  /\ u0 = <<>>
  /\ u = <<>>
  /\ u_in = <<>>
  /\ jump_val = NoValue
  /\ log = <<>>
  /\ threshold = <<>>
  /\ u_clean = <<>>
  /\ rh15 = <<>>
  /\ series = <<>>
  /\ daily \in {d \in DailySeries(MaxDays, FitHeights) : IsInterpolated(d)}
  /\ err = ""
  /\ pass = 1
  /\ swe = <<>>
  /\ sh = <<>>
  /\ density = <<>>
  /\ density_cleaned = <<>>
  /\ pickle = <<>>
  /\ files = {}
  /\ df_total = <<>>
  /\ df_enu = <<>>
  /\ fil_df = <<>>
  /\ swe_gnss = <<>>
  /\ swe_gnss_daily \in {d \in DailySeries(MaxDays, FitMasses) : IsInterpolated(d)}
  /\ swe_over_sh = <<>>
  /\ fit_input = <<>>
  /\ exp_fit = <<>>
  /\ density_err = <<>>

\* swe_over_sh = create_new_df(...); .loc[0] = [0, ...]; sort_index()
CreateSweOverSh ==
  /\ pc = "join"
  /\ LET x == [i \in 1..Len(daily) |-> [t |-> daily[i].t, v |-> InMetres(daily[i].v)]]
     IN swe_over_sh' = SortIndex(SetLoc0(create_new_df(x, swe_gnss_daily)))
  /\ pc' = "fit"
  /\ UNCHANGED <<sensor, u0, u, u_in, jump_val, log, threshold, u_clean, rh15,
                 series, daily, err, densityVars, readVars, pipelineVars,
                 fit_input, exp_fit, density_err>>

\* exponential_regression(title, x_data, y_data, function, y_0)
ExponentialRegression ==
  /\ pc = "fit"
  /\ \E function \in FunctionNames, y_0 \in {0, 1} :
       LET x_data == [i \in 1..Len(swe_over_sh) |-> swe_over_sh[i].h]
           y_data == [i \in 1..Len(swe_over_sh) |-> swe_over_sh[i].m]
           weighted == function = "a * exp(b * x) + c"
       IN IF function = "linear"
          THEN /\ fit_input' = [function |-> function, x_data |-> x_data,
                                y_data |-> y_data, sigma |-> <<>>]
               /\ exp_fit' = [kind |-> "zeros"]
               /\ pc' = "fitted"
               /\ UNCHANGED err
          ELSE IF weighted /\ y_0 = 0 /\ x_data = <<>>
               THEN /\ pc' = "error"
                    /\ err' = "IndexError"
                    /\ UNCHANGED <<fit_input, exp_fit>>
               ELSE /\ fit_input' = [function |-> function, x_data |-> x_data,
                                     y_data |-> y_data,
                                     sigma |-> IF weighted THEN Sigma(x_data, y_0)
                                               ELSE <<>>]
                    /\ \E r \in curve_fit(function, x_data) :
                         IF r.kind = "popt"
                         THEN /\ exp_fit' = [kind |-> "fit", x_data |-> x_data,
                                             fit |-> FitValues(function, x_data, r.popt),
                                             popt |-> r.popt]
                              /\ pc' = "fitted"
                              /\ UNCHANGED err
                         ELSE /\ pc' = "error"
                              /\ err' = r.kind
                              /\ UNCHANGED exp_fit
  /\ UNCHANGED <<sensor, u0, u, u_in, jump_val, log, threshold, u_clean, rh15,
                 series, daily, densityVars, readVars, pipelineVars,
                 swe_over_sh, density_err>>

NextFit == CreateSweOverSh \/ ExponentialRegression

SpecFit == InitFit /\ [][NextFit]_vars

-----------------------------------------------------------------------------
(* Main script, section 13: density uncertainty by error propagation *)

\* points of the height grid np.linspace(0, 10, 1001) after the first: the
\* grid is 0..GridMax, in grid steps
GridMax == 3

\* uncertainties of mass and of height (in grid steps), and the fixed
\* densities of section 13
MErrs == {1, 3}
HErrs == {1, 2}
Densities == <<50, 150, 300, 550>>

\* np.sqrt((m_err / m)**2 + (h_err / h)**2)
RelErr(m, h, m_err, h_err) ==
  NumRootOfSquares(NumDivide(NumInt(m_err), m), NumDivide(NumInt(h_err), NumInt(h)))

\* func_err_prop_single multiplying the relative error by the mass
func_err_prop_single_TimesMass(a, b, c, m_err, h_err) ==
  [m_err |-> m_err, h_err |-> h_err,
   rows |-> [g \in 1..(GridMax + 1) |->
               LET h == g - 1
                   m == func_exp(h, a, b, c)
               IN [h |-> h, rel |-> RelErr(m, h, m_err, h_err),
                   abs |-> NumTimes(RelErr(m, h, m_err, h_err), m)]]]

\* func_err_prop_single: the columns rel_m<m_err>_h<h_err> and
\* abs_m<m_err>_h<h_err> over the height grid
func_err_prop_single(a, b, c, m_err, h_err) ==
  [m_err |-> m_err, h_err |-> h_err,
   rows |-> [g \in 1..(GridMax + 1) |->
               LET h == g - 1
                   m == func_exp(h, a, b, c)
                   dens == NumDivide(m, NumInt(h))
                   rel_err == RelErr(m, h, m_err, h_err)
               IN [h |-> h, rel |-> rel_err, abs |-> NumTimes(rel_err, dens)]]]

\* func_err_prop pairing the mass uncertainties with the height
\* uncertainties in reverse order
func_err_prop_Reversed(a, b, c, m_errs, h_errs) ==
  [i \in 1..4 |-> func_err_prop_single(a, b, c, m_errs[i], h_errs[5 - i])]

\* func_err_prop: error1..error4 side by side (pd.concat(axis=1))
func_err_prop(a, b, c, m_errs, h_errs) ==
  [i \in 1..4 |-> func_err_prop_single(a, b, c, m_errs[i], h_errs[i])]

\* func_err_prop2 on a grid that starts one step above 0
func_err_prop2_WithoutZero(a, b, c, m_err, h_err, dens) ==
  [g \in 1..GridMax |->
     LET h == g
         m == func_exp(h, a, b, c)
         rel_err == RelErr(m, h, m_err, h_err)
     IN [h |-> h, rel |-> rel_err,
         abs |-> [j \in 1..4 |-> NumTimes(rel_err, NumInt(dens[j]))]]]

\* func_err_prop2: rel_err and abs_err_<density> for the four densities
func_err_prop2(a, b, c, m_err, h_err, dens) ==
  [g \in 1..(GridMax + 1) |->
     LET h == g - 1
         m == func_exp(h, a, b, c)
         rel_err == RelErr(m, h, m_err, h_err)
     IN [h |-> h, rel |-> rel_err,
         abs |-> [j \in 1..4 |-> NumTimes(rel_err, NumInt(dens[j]))]]]

\* the state after exponential_regression has returned the parameters of
\* a * exp(b * x) + c for a table of three samples
InitErrProp ==
  /\ sensor = "none"
  /\ pc = "fitted"
  /\ u0 = <<>>
  /\ u = <<>>
  /\ u_in = <<>>
  /\ jump_val = NoValue
  /\ log = <<>>
  /\ threshold = <<>>
  /\ u_clean = <<>>
  /\ rh15 = <<>>
  /\ series = <<>>
  /\ daily = <<>>
  /\ err = ""
  /\ pass = 1
  /\ swe = <<>>
  /\ sh = <<>>
  /\ density = <<>>
  /\ density_cleaned = <<>>
  /\ pickle = <<>>
  /\ files = {}
  /\ df_total = <<>>
  /\ df_enu = <<>>
  /\ fil_df = <<>>
  /\ swe_gnss = <<>>
  /\ swe_gnss_daily = <<>>
  /\ swe_over_sh = <<[h |-> 0, m |-> 0], [h |-> 1, m |-> 0], [h |-> 2, m |-> 3]>>
  /\ fit_input = [function |-> "a * exp(b * x) + c", x_data |-> <<0, 1, 2>>,
                  y_data |-> <<0, 0, 3>>, sigma |-> Sigma(<<0, 1, 2>>, 0)]
  /\ \E popt \in Popts("a * exp(b * x) + c") :
       exp_fit = [kind |-> "fit", x_data |-> <<0, 1, 2>>,
                  fit |-> FitValues("a * exp(b * x) + c", <<0, 1, 2>>, popt),
                  popt |-> popt]
  /\ density_err = <<>>

\* section 13: density_err_h01, density_err_m30 = func_err_prop(...) with the
\* parameters of the fit
FuncErrProp ==
  /\ pc = "fitted"
  /\ exp_fit.kind = "fit"
  /\ Len(exp_fit.popt) = 3
  /\ \E m_errs \in [1..4 -> MErrs], h_errs \in [1..4 -> HErrs] :
       density_err' =
         [m_errs |-> m_errs, h_errs |-> h_errs,
          error |-> func_err_prop(exp_fit.popt[1], exp_fit.popt[2], exp_fit.popt[3],
                                  m_errs, h_errs),
          error2 |-> <<>>]
  /\ pc' = "propagated"
  /\ UNCHANGED <<sensor, u0, u, u_in, jump_val, log, threshold, u_clean, rh15,
                 series, daily, err, densityVars, readVars, pipelineVars,
                 swe_over_sh, fit_input, exp_fit>>

\* section 13: density_err = func_err_prop2(...) for the constant densities
FuncErrProp2 ==
  /\ pc = "propagated"
  /\ \E m_err \in MErrs, h_err \in HErrs :
       density_err' =
         [density_err EXCEPT
            !.error2 = [m_err |-> m_err, h_err |-> h_err,
                        rows |-> func_err_prop2(exp_fit.popt[1], exp_fit.popt[2],
                                                exp_fit.popt[3], m_err, h_err,
                                                Densities)]]
  /\ pc' = "done"
  /\ UNCHANGED <<sensor, u0, u, u_in, jump_val, log, threshold, u_clean, rh15,
                 series, daily, err, densityVars, readVars, pipelineVars,
                 swe_over_sh, fit_input, exp_fit>>



NextErrProp == FuncErrProp \/ FuncErrProp2

SpecErrProp == InitErrProp /\ [][NextErrProp]_vars

-----------------------------------------------------------------------------
(* Main script, section 10: density from the two filters' daily series *)

\* the values a filtered series takes in the density runs (mm)
PipelineSwe == {Unit, 2 * Unit}
PipelineAcc == {2 * Unit, 4 * Unit}

\* the rows of day d of a filtered sub-daily series: none, one or two
DayRows(d, V) ==
  LET lo == CHOOSE x \in V : \A y \in V : x <= y
      hi == CHOOSE x \in V : \A y \in V : x >= y
      r(k, x) == [t |-> d * TicksPerDay + k, v |-> x]
  IN {<<>>, <<r(1, lo)>>, <<r(1, hi)>>, <<r(1, lo), r(TicksPerDay - 1, hi)>>}

\* filtered sub-daily series over the days 0..days
RECURSIVE SubDailySeries(_, _)
SubDailySeries(days, V) ==
  IF days < 0 THEN {<<>>}
  ELSE {s \o rows : s \in SubDailySeries(days - 1, V), rows \in DayRows(days, V)}

\* a common multiple of the gaps an interpolation can bridge
RECURSIVE InterpScale(_)
InterpScale(n) ==
  IF n <= 1 THEN 1 ELSE (InterpScale(n - 1) * n) \div Gcd(InterpScale(n - 1), n)

\* s.interpolate(): linear in the position between the neighbouring valid
\* rows, the last valid value after them, still missing before the first
\* valid row; the values come out multiplied by k
Interpolate(s, k) ==
  LET valid == {j \in 1..Len(s) : ~IsNaN(s[j].v)}
      val(i) ==
        IF i \in valid THEN k * s[i].v
        ELSE IF \A j \in valid : j > i THEN NaN
        ELSE LET p == CHOOSE j \in valid : j < i /\ \A m \in valid : m < i => m <= j
             IN IF \A j \in valid : j < i THEN k * s[p].v
                ELSE LET q == CHOOSE j \in valid :
                                 j > i /\ \A m \in valid : m > i => m >= j
                     IN k * s[p].v + ((s[q].v - s[p].v) * (i - p) * k) \div (q - p)
  IN [i \in 1..Len(s) |-> [t |-> s[i].t, v |-> val(i)]]

\* the state after filter_rtklib_solutions and filter_gnssir have returned:
\* swe_gnss and gnssir_acc (series) in mm, their daily medians doubled
InitPipeline ==
  /\ sensor = "none"
  /\ pc = "interpolate"
  /\ u0 = <<>>
  /\ u = <<>>
  /\ u_in = <<>>
  /\ jump_val = NoValue
  /\ log = <<>>
  /\ threshold = <<>>
  /\ u_clean = <<>>
  /\ rh15 = <<>>
  /\ series \in SubDailySeries(MaxDays, PipelineAcc) \ {<<>>}
  /\ daily = Resample(series, TicksPerDay)
  /\ err = ""
  /\ pass = 1
  /\ swe = <<>>
  /\ sh = <<>>
  /\ density = <<>>
  /\ density_cleaned = <<>>
  /\ pickle = <<>>
  /\ files = {}
  /\ df_total = <<>>
  /\ df_enu = <<>>
  /\ fil_df = <<>>
  /\ swe_gnss \in SubDailySeries(MaxDays, PipelineSwe) \ {<<>>}
  /\ swe_gnss_daily = Resample(swe_gnss, TicksPerDay)
  /\ swe_over_sh = <<>>
  /\ fit_input = <<>>
  /\ exp_fit = <<>>
  /\ density_err = <<>>

\* InterpolateDaily handing over the filters' sub-daily series
InterpolateDaily_SubDaily ==
  /\ pc = "interpolate"
  /\ swe' = swe_gnss
  /\ sh' = series
  /\ pc' = "density"
  /\ UNCHANGED <<sensor, u0, u, u_in, jump_val, log, threshold, u_clean, rh15,
                 series, daily, err, pass, density, density_cleaned, otherVars>>

\* the arguments of convert_swesh2density(swe_gnss_daily.interpolate(),
\* gnssir_acc_daily.interpolate())
InterpolateDaily ==
  /\ pc = "interpolate"
  /\ swe' = Interpolate(swe_gnss_daily, InterpScale(MaxDays))
  /\ sh' = Interpolate(daily, InterpScale(MaxDays))
  /\ pc' = "density"
  /\ UNCHANGED <<sensor, u0, u, u_in, jump_val, log, threshold, u_clean, rh15,
                 series, daily, err, pass, density, density_cleaned, otherVars>>

NextPipeline == InterpolateDaily \/ ConvertSwesh2Density

SpecPipeline == InitPipeline /\ [][NextPipeline]_vars

-----------------------------------------------------------------------------
(* The stages side by side: a behaviour is one call of a filter, of the *)
(* density estimator, or a sequence of reader calls                     *)

InitStages == Init \/ InitDensity \/ InitRead

NextStages == Next \/ NextDensity \/ NextRead

SpecStages == InitStages /\ [][NextStages]_vars

-----------------------------------------------------------------------------
(* Properties *)

\* the while loop of the corrector has been left
LoopDone == pc \in {"filter", "aggregate", "done"}

\* position in s of the row with timestamp t
PosOf(s, t) == CHOOSE i \in 1..Len(s) : s[i].t = t

\* s with m subtracted from every row at or after position j
Shifted(s, j, m) ==
  [i \in 1..Len(s) |-> IF i < j THEN s[i] ELSE [t |-> s[i].t, v |-> s[i].v - m]]

\* C1: a series with exactly one difference beyond the threshold (in the
\* direction the corrector detects) leaves the loop after exactly one
\* correction, logged at the position of the step with magnitude
\* (value after) - (value before), and that magnitude is subtracted from
\* every row at or after the step while the earlier rows are unchanged.
C1_SingleJumpCorrected ==
  (LoopDone /\ pass = 1 /\ Len(Jump(sensor, u_in)) = 1) =>
     LET j == PosOf(u_in, Jump(sensor, u_in)[1].t)
         m == u_in[j].v - u_in[j - 1].v
     IN /\ Len(log) = 1
        /\ log[1].t = u_in[j].t
        /\ u = Shifted(u_in, j, m)

\* C2: the corrector applied to a series it has already corrected ends
\* normally, applies no correction and returns the series unchanged.
C2_Idempotent ==
  (pass = 2 /\ pc # "detect") => (pc # "error" /\ log = <<>> /\ u = u0)

\* some difference of s is beyond the rtklib threshold, in either direction
StepsBeyond(s, T) == NegJumps(s, T) \cup PosJumps(s, T)

\* row i of s is a single-sample excursion: the step into it is beyond the
\* threshold and the next row is back on the other side of it
IsTransient(s, i) ==
  /\ i > 1
  /\ i < Len(s)
  /\ \/ Gt(Diff(s, i), JumpRtklib) /\ Lt(s[i + 1].v, s[i].v - JumpRtklib)
     \/ Lt(Diff(s, i), 0 - JumpRtklib) /\ Gt(s[i + 1].v, s[i].v + JumpRtklib)

\* C3: when the series holds one transient excursion and no other step
\* beyond the threshold, filter_rtklib_solutions' corrector ends normally
\* with exactly that sample dropped, no correction applied and every other
\* row unchanged.
C3_TransientDropped ==
  \A i \in 1..Len(u0) :
    (/\ sensor = "rtklib"
     /\ pass = 1
     /\ pc \notin {"drop_pos", "drop_neg", "detect", "loop"}
     /\ IsTransient(u0, i)
     /\ StepsBeyond(Drop(u0, u0[i].t), JumpRtklib) = {})
    => (pc # "error" /\ log = <<>> /\ u = Drop(u0, u0[i].t))

\* C4: with two events of different magnitudes (neither falling on a
\* midnight row), the corrected series is the input with the first
\* magnitude subtracted from the first event on and the second magnitude
\* subtracted from the second event on.
C4_EachEventOwnMagnitude ==
  (/\ LoopDone
   /\ pass = 1
   /\ jump_val.kind = "scalar"
   /\ Len(Jump(sensor, u_in)) = 2
   /\ Diff(u_in, PosOf(u_in, Jump(sensor, u_in)[1].t))
        # Diff(u_in, PosOf(u_in, Jump(sensor, u_in)[2].t)))
  => LET j1 == PosOf(u_in, Jump(sensor, u_in)[1].t)
         j2 == PosOf(u_in, Jump(sensor, u_in)[2].t)
     IN u = Shifted(Shifted(u_in, j1, Diff(u_in, j1)), j2, Diff(u_in, j2))

Filtered == threshold # <<>>

\* a is b with some rows removed: same rows, same order
Restriction(a, b) == \E I \in SUBSET (1..Len(b)) : a = Keep(b, I)

\* C6: the outlier filter only removes rows: every timestamp of its output
\* is a timestamp of its input and carries the input's value there.
C6_FilterOnlyRemoves ==
  (Filtered /\ err = "") => Restriction(u_clean, u)

\* the filter kept some rows and removed a row other than the first
C6_Witness ==
  /\ Filtered
  /\ err = ""
  /\ Len(u_clean) >= 1
  /\ Len(u_clean) < Len(u) - 1

\* C7: convert_swesh2density returns no row for a bucket whose height is
\* zero or missing, whatever the mass, and no row of its result is infinite.
C7_NoDensityWithoutHeight ==
  (sensor = "none" /\ pc = "done") =>
     /\ \A i \in 1..Len(density_cleaned) : density_cleaned[i].kind = "fin"
     /\ \A t \in Times(swe) \cup Times(sh) :
          (IsNaN(At(sh, t)) \/ At(sh, t) = 0) => t \notin Times(density_cleaned)

\* mass 100 over height 0 in one bucket, and a density kept in another
C7_Witness ==
  /\ sensor = "none"
  /\ pc = "done"
  /\ \E t \in Times(sh) : At(sh, t) = 0 /\ At(swe, t) = 100
  /\ density_cleaned # <<>>

InRange(r) == r.kind = "fin" /\ DensityMin * r.d <= r.n /\ r.n < DensityMax * r.d

DaySpan(s) == DayOf(s[1].t)..DayOf(s[Len(s)].t)
RowsOfDay(s, d) == {i \in 1..Len(s) : DayOf(s[i].t) = d}

\* C9: when every calendar day from the first to the last row of the
\* series holds a row, the daily aggregation has exactly one entry per
\* such day, in order, each with a median.
C9_OneEntryPerDay ==
  (/\ pc = "done"
   /\ sensor # "none"
   /\ series # <<>>
   /\ \A d \in DaySpan(series) : RowsOfDay(series, d) # {})
  => /\ Len(daily) = Cardinality({DayOf(t) : t \in Times(series)})
     /\ \A k \in 1..Len(daily) :
          /\ daily[k].t = (DayOf(series[1].t) + k - 1) * TicksPerDay
          /\ ~IsNaN(daily[k].v)

\* a series over at least two consecutive days was aggregated
C9_Witness ==
  /\ pc = "done"
  /\ sensor # "none"
  /\ series # <<>>
  /\ \A d \in DaySpan(series) : RowsOfDay(series, d) # {}
  /\ Len(daily) >= 2

Fitted == pc = "fitted" /\ exp_fit # <<>>

\* C11: exponential_regression never returns the all-zero result: a call
\* that returns hands back a fitted parameter vector, and a call that
\* fitted nothing ends in an error.
C11_NoZeroModel ==
  Fitted => (exp_fit.kind = "fit" /\ exp_fit.popt \in Popts(fit_input.function))

\* the sigma multiplier of the call is zero or negative
InvalidThreshold == threshold # <<>> /\ threshold[1] <= 0

\* C12: a call with a zero or negative sigma multiplier ends in an error
\* and has selected, corrected and filtered nothing and produced no series.
C12_InvalidThresholdFailsFast ==
  InvalidThreshold =>
     (pc = "error" /\ log = <<>> /\ u_clean = <<>> /\ series = <<>> /\ daily = <<>>)

\* C13: with valid parameters, no call of filter_rtklib_solutions or
\* filter_gnssir on a non-empty sorted series ends in an exception.
C13_NeverRaises ==
  (pass = 1 /\ ~InvalidThreshold /\ u0 # <<>>) => (pc # "error" /\ err = "")

\* C14: when the outlier filter runs, the series holds no step the
\* corrector detects, and the filter's output is computed from exactly
\* that corrected series.
C14_FilterAfterCorrections ==
  Filtered =>
     /\ Jump(sensor, u) = <<>>
     /\ err = "" => u_clean = OutlierFilter(u, threshold[1], threshold[2])

\* the filter ran on a series that had been corrected more than once
C14_Witness ==
  /\ Filtered
  /\ err = ""
  /\ Len(log) >= 2
  /\ u_clean # <<>>

\* a reader has returned a frame
HasRead == df_total # <<>>

\* position of the last row of f with timestamp t
LastPos(f, t) ==
  CHOOSE i \in 1..Len(f) : f[i].t = t /\ \A j \in (i + 1)..Len(f) : f[j].t # t

StrictlyIncreasing(f) == \A i \in 1..(Len(f) - 1) : f[i].t < f[i + 1].t

\* C16: the frame a reader returns and stores holds every timestamp of the
\* concatenated old and new rows exactly once, with the row that was read
\* last for it, and the selected frame is strictly increasing in time after
\* sort_index.
C16_UniqueKeepLastSorted ==
  HasRead =>
     /\ \A i, j \in 1..Len(df_enu) : df_enu[i].t = df_enu[j].t => i = j
     /\ Times(df_enu) = Times(df_total)
     /\ \A i \in 1..Len(df_enu) : df_enu[i] = df_total[LastPos(df_total, df_enu[i].t)]
     /\ pickle = df_enu
     /\ StrictlyIncreasing(fil_df)
     /\ Times(fil_df) \subseteq Times(df_enu)

\* a stored row was replaced by a row of a newly read file with another
\* value, and the selected frame had to be reordered
C16_Witness ==
  /\ HasRead
  /\ pass > 2
  /\ \E i, j \in 1..Len(df_total) :
       i < j /\ df_total[i].t = df_total[j].t /\ df_total[i].v # df_total[j].v
  /\ ~StrictlyIncreasing(df_enu)
  /\ Len(fil_df) >= 2

\* C15: no step of filter_rtklib_solutions, filter_gnssir or
\* convert_swesh2density changes the series it was called with: df_enu
\* during the selection, the selected series u0 during correction, filter
\* and aggregation, swe and sh during the density computation.
C15_InputsUntouched ==
  [][/\ u0' = u0
     /\ swe' = swe
     /\ sh' = sh
     /\ pc = "select" => df_enu' = df_enu]_vars

\* a filter call that corrected and filtered a series has returned, or the
\* density of non-empty series has been computed, or a selection dropped
\* and reordered rows
C15_Witness ==
  \/ pc = "done" /\ sensor # "none" /\ log # <<>> /\ u # u0 /\ u_clean # u
  \/ pc = "done" /\ sensor = "none" /\ swe # <<>> /\ sh # <<>> /\ density # <<>>
  \/ pc = "read" /\ pass > 1 /\ df_enu # <<>> /\ fil_df # df_enu

\* C17: the mass and height series handed to convert_swesh2density are the
\* daily aggregates: one row per day, at midnight, on the days of the daily
\* medians, and every density row lies on such a day; no row of a sub-daily
\* series is among them.
C17_DensityFromDaily ==
  pc \in {"density", "done"} =>
     /\ \A i \in 1..Len(swe) : IsMidnight(swe[i].t)
     /\ \A i \in 1..Len(sh) : IsMidnight(sh[i].t)
     /\ \A i \in 1..Len(swe) : swe[i].t = swe_gnss_daily[1].t + (i - 1) * TicksPerDay
     /\ \A i \in 1..Len(sh) : sh[i].t = daily[1].t + (i - 1) * TicksPerDay
     /\ Len(swe) = Len(swe_gnss_daily)
     /\ Len(sh) = Len(daily)
     /\ \A i \in 1..Len(density) : IsMidnight(density[i].t)

\* a density has been computed from series with several samples on a day and
\* a day without samples that the interpolation filled
C17_Witness ==
  /\ pc = "done"
  /\ density_cleaned # <<>>
  /\ Len(swe_gnss) > Len(swe_gnss_daily)
  /\ \E i \in 1..Len(daily) : IsNaN(daily[i].v) /\ ~IsNaN(sh[i].v)
  /\ \E i \in 1..Len(swe_gnss) : ~IsMidnight(swe_gnss[i].t)

\* C18: the input of the weighted fit holds the anchor sample (height 0,
\* mass 0), and a sample has the anchor weight only if it is that sample.
C18_AnchorWeighted ==
  (fit_input # <<>> /\ fit_input.sigma # <<>> /\ fit_input.sigma[1] = SigmaAnchor) =>
     /\ \E i \in 1..Len(fit_input.x_data) :
          fit_input.x_data[i] = 0 /\ fit_input.y_data[i] = 0
     /\ \A i \in 1..Len(fit_input.x_data) :
          fit_input.sigma[i] = SigmaAnchor =>
             (fit_input.x_data[i] = 0 /\ fit_input.y_data[i] = 0)

\* the fitted model a * exp(b * h) + c at grid height h
Mass(h) == exp_fit.popt[1] * Pow2(exp_fit.popt[2] * h) + exp_fit.popt[3]

\* the square of the propagated relative error at grid height h, as the
\* fraction <<numerator, denominator>>
RelSquared(h, m_err, h_err) ==
  <<m_err * m_err * h * h + h_err * h_err * Mass(h) * Mass(h), Mass(h) * Mass(h) * h * h>>

\* the float x is the signed root sg * sqrt(f[1] / f[2])
IsRoot(x, sg, f) ==
  /\ x.k = "fin"
  /\ x.s = sg
  /\ x.n = f[1] \div Gcd(f[1], f[2])
  /\ x.d = f[2] \div Gcd(f[1], f[2])

\* C19: at every grid height h > 0 and for every pair of func_err_prop, the
\* relative error is sqrt((m_err / mass(h))^2 + (h_err / h)^2) and the
\* absolute error is that relative error times mass(h) / h (where the fitted
\* mass is 0 the quotient m_err / mass is infinite, and so is the relative
\* error).
C19_ErrorPropagation ==
  pc \in {"propagated", "done"} =>
     \A i \in 1..4 : \A h \in 1..GridMax :
        LET row == density_err.error[i].rows[h + 1]
            f == RelSquared(h, density_err.m_errs[i], density_err.h_errs[i])
        IN /\ row.h = h
           /\ IF Mass(h) = 0
              THEN row.rel = NumInf(1) /\ row.abs = NumNaN
              ELSE /\ IsRoot(row.rel, 1, f)
                   /\ IsRoot(row.abs, Sign(Mass(h)),
                             <<f[1] * Mass(h) * Mass(h), f[2] * h * h>>)

\* errors have been propagated for four different pairs through a fitted
\* model that grows with the height
C19_Witness ==
  /\ pc = "propagated"
  /\ exp_fit.popt[2] > 0
  /\ Mass(GridMax) > 0
  /\ \A i, j \in 1..4 :
       (density_err.m_errs[i] = density_err.m_errs[j]
          /\ density_err.h_errs[i] = density_err.h_errs[j]) => i = j

\* C20: the i-th column pair of func_err_prop is the one func_err_prop_single
\* returns for the i-th mass and the i-th height uncertainty, on the same
\* grid; func_err_prop2 has the relative error of func_err_prop_single for
\* its pair and, for each of the four densities, that relative error times
\* the density.
C20_PositionalAndFixedDensity ==
  /\ pc \in {"propagated", "done"} =>
       \A i \in 1..4 :
          density_err.error[i] =
            func_err_prop_single(exp_fit.popt[1], exp_fit.popt[2], exp_fit.popt[3],
                                 density_err.m_errs[i], density_err.h_errs[i])
  /\ (pc = "done" /\ density_err # <<>>) =>
       LET e2 == density_err.error2
           single == func_err_prop_single(exp_fit.popt[1], exp_fit.popt[2],
                                          exp_fit.popt[3], e2.m_err, e2.h_err)
       IN \A g \in 1..(GridMax + 1) :
            /\ e2.rows[g].h = single.rows[g].h
            /\ e2.rows[g].rel = single.rows[g].rel
            /\ \A j \in 1..4 :
                 e2.rows[g].abs[j] = NumTimes(single.rows[g].rel, NumInt(Densities[j]))

\* both propagations have run, with height uncertainties that differ between
\* the first and the last pair, and the fixed densities give another absolute
\* error than the density of the model
C20_Witness ==
  /\ pc = "done"
  /\ density_err # <<>>
  /\ density_err.h_errs[1] # density_err.h_errs[4]
  /\ density_err.m_errs[2] # density_err.m_errs[3]
  /\ \E g \in 2..(GridMax + 1) :
       /\ density_err.error2.rows[g].rel.k = "fin"
       /\ density_err.error2.rows[g].abs[1] # density_err.error2.rows[g].abs[4]

\* C21: the jump-correction loop ends after finitely many iterations.  The
\* loop body changes nothing but the series, so an iteration that hands back
\* the series it was given repeats for ever: no iteration does that.
C21_LoopTerminates ==
  (pc = "loop" /\ Jump(sensor, u) # <<>>) =>
     CorrectStep(u, Jump(sensor, u), jump_val) # u

\* C22: the correction is additive.  Once the loop has ended the series has
\* the rows of the series the loop was entered with, the rows before the
\* first event carry their values, and the difference between two adjacent
\* rows that no event separates is the one of the input.
C22_Additive ==
  (LoopDone /\ pass = 1) =>
     LET events == {PosOf(u_in, Jump(sensor, u_in)[k].t) :
                      k \in 1..Len(Jump(sensor, u_in))}
         first == CHOOSE j \in events : \A k \in events : j <= k
     IN /\ Len(u) = Len(u_in)
        /\ \A i \in 1..Len(u_in) : u[i].t = u_in[i].t
        /\ \A i \in 1..(first - 1) : u[i].v = u_in[i].v
        /\ \A i \in 2..Len(u_in) : i \notin events => Diff(u, i) = Diff(u_in, i)

\* the jump threshold of the corrector
ThresholdOf(sn) == IF sn = "rtklib" THEN JumpRtklib ELSE JumpGnssir

\* the differences the corrector does not look for: above the threshold in
\* filter_rtklib_solutions' loop, below minus the threshold in filter_gnssir's
OtherWay(sn, s) ==
  IF sn = "rtklib" THEN PosJumps(s, JumpRtklib) ELSE NegJumps(s, JumpGnssir)

\* row i of s leaves and the next row returns: a single-sample excursion
\* beyond the threshold T
IsExcursion(s, i, T) ==
  /\ i > 1
  /\ i < Len(s)
  /\ \/ Gt(Diff(s, i), T) /\ Lt(Diff(s, i + 1), 0 - T)
     \/ Lt(Diff(s, i), 0 - T) /\ Gt(Diff(s, i + 1), T)

\* a step into row i that stays: neither row i nor the row before it is an
\* excursion
IsPersistent(s, i, T) == ~IsExcursion(s, i, T) /\ ~IsExcursion(s, i - 1, T)

\* C23: the loop of filter_rtklib_solutions corrects only at differences
\* below -1000 mm, the loop of filter_gnssir only at differences above
\* 2500 mm; a persistent step beyond the threshold the other way is still
\* there when the loop has ended: its two rows are adjacent and differ as in
\* the input.
C23_OneDirectionOnly ==
  (LoopDone /\ pass = 1) =>
     /\ \A k \in 1..Len(log) :
          \E i \in 2..Len(u_in) :
             /\ u_in[i].t = log[k].t
             /\ IF sensor = "rtklib" THEN Lt(Diff(u_in, i), 0 - JumpRtklib)
                ELSE Gt(Diff(u_in, i), JumpGnssir)
     /\ \A i \in OtherWay(sensor, u0) :
          IsPersistent(u0, i, ThresholdOf(sensor)) =>
             \E j \in 2..Len(u) :
                /\ u[j].t = u0[i].t
                /\ u[j - 1].t = u0[i - 1].t
                /\ Diff(u, j) = Diff(u0, i)

\* the trailing window of row i of the corrected series holds fewer than
\* two values
SmallWindow(i) == Len(Vals(WindowOf(u, i))) < 2

\* C24 as stated: for a window of fewer than two values the standard
\* deviation is 0, the bounds are the median, and a row that differs from the
\* median is rejected.
C24_BoundsCollapse ==
  (Filtered /\ err = "") =>
     \A i \in 1..Len(u) :
        SmallWindow(i) =>
           /\ RollingVar(u, i) = <<0, 1>>
           /\ (~IsNaN(u[i].v) /\ 2 * (u[i].v \div Unit) # Median2(Vals(WindowOf(u, i))))
                => \A j \in 1..Len(u_clean) : u_clean[j].t # u[i].t

\* C24 amended: for a window of fewer than two values the standard deviation
\* and with it both bounds are missing, and the row is rejected although it is
\* the median of its window.
C24_SmallWindowRejected ==
  (Filtered /\ err = "") =>
     \A i \in 1..Len(u) :
        SmallWindow(i) =>
           /\ RollingVar(u, i) = <<>>
           /\ \A j \in 1..Len(u_clean) : u_clean[j] # u[i]

\* the filter kept rows and rejected the first row and a row that follows a
\* gap longer than the window, each alone in its window
C24_Witness ==
  /\ Filtered
  /\ err = ""
  /\ threshold[1] > 0
  /\ u_clean # <<>>
  /\ \E i \in 2..Len(u) : SmallWindow(i) /\ ~IsNaN(u[i].v)

\* C25: every timestamp of the density returned by convert_swesh2density is
\* a timestamp of both the mass and the height series, and the rows are in
\* the order of those timestamps; a timestamp that only one of the two series
\* has gives no density.
C25_OnIntersection ==
  (sensor = "none" /\ pc = "done") =>
     /\ Times(density_cleaned) \subseteq (Times(swe) \cap Times(sh))
     /\ \A i \in 1..(Len(density_cleaned) - 1) :
          density_cleaned[i].t < density_cleaned[i + 1].t
     /\ \A i \in 1..Len(density_cleaned) :
          ~IsNaN(At(swe, density_cleaned[i].t)) /\ ~IsNaN(At(sh, density_cleaned[i].t))

\* a density was returned for a day both series have, and one of the series
\* has a day with a plausible value that the other lacks
C25_Witness ==
  /\ sensor = "none"
  /\ pc = "done"
  /\ Len(density_cleaned) >= 1
  /\ \/ \E t \in Times(swe) \ Times(sh) : At(swe, t) = 100
     \/ \E t \in Times(sh) \ Times(swe) : At(sh, t) = 1000

\* C26: every error profile has its first row at height 0, one row per grid
\* point, and the row at height 0 carries what the division by zero gives:
\* an infinite relative error, and an absolute error that is infinite, or
\* not a number where the fitted mass at height 0 is 0.
C26_ZeroHeightRowKept ==
  /\ pc \in {"propagated", "done"} =>
       \A i \in 1..4 :
          LET rows == density_err.error[i].rows
          IN /\ Len(rows) = GridMax + 1
             /\ rows[1].h = 0
             /\ rows[1].rel = NumInf(1)
             /\ rows[1].abs = IF Mass(0) = 0 THEN NumNaN ELSE NumInf(Sign(Mass(0)))
  /\ (pc = "done" /\ density_err # <<>>) =>
       LET rows == density_err.error2.rows
       IN /\ Len(rows) = GridMax + 1
          /\ rows[1].h = 0
          /\ rows[1].rel = NumInf(1)
          /\ \A j \in 1..4 : rows[1].abs[j] = NumInf(1)

\* both propagations have run for a fitted model whose mass at height 0 is
\* 0, and the rows above height 0 are finite
C26_Witness ==
  /\ pc = "done"
  /\ density_err # <<>>
  /\ Mass(0) = 0
  /\ Mass(1) # 0
  /\ density_err.error[1].rows[2].abs.k = "fin"
  /\ density_err.error2.rows[2].rel.k = "fin"

\* C27: once the loop has ended, a difference beyond the threshold in the
\* direction the corrector does not detect was in the series the loop was
\* entered with, between the same rows and with the same value.
C27_NoNewStep ==
  (LoopDone /\ pass = 1) =>
     \A j \in OtherWay(sensor, u) :
        /\ j <= Len(u_in)
        /\ u_in[j].t = u[j].t
        /\ u_in[j - 1].t = u[j - 1].t
        /\ Diff(u_in, j) = Diff(u, j)

\* C28: the series leaving the loop has the timestamps of the series
\* entering it, row by row.
C28_SameTimestamps ==
  (LoopDone /\ pass = 1) =>
     /\ Len(u) = Len(u_in)
     /\ \A i \in 1..Len(u_in) : u[i].t = u_in[i].t

\* the loop has corrected an event that has rows before and after it
C28_Witness ==
  /\ LoopDone
  /\ pass = 1
  /\ log # <<>>
  /\ Len(u_in) >= 3
  /\ \E i \in 2..(Len(u_in) - 1) : u_in[i].t = log[1].t
  /\ u # u_in

\* C29: the first row of the series handed to the rolling filter is never
\* in the filter's output, whatever the sigma multiplier.
C29_FirstRowRejected ==
  (Filtered /\ err = "" /\ u # <<>>) =>
     /\ \A j \in 1..Len(u_clean) : u_clean[j].t # u[1].t
     /\ Len(u_clean) < Len(u)

\* the filter has run with a multiplier of 3 and kept the second row, one
\* tick after the first
C29_Witness ==
  /\ Filtered
  /\ err = ""
  /\ threshold = <<3, 1>>
  /\ Len(u) >= 2
  /\ u[2].t = u[1].t + 1
  /\ u_clean # <<>>
  /\ u_clean[1] = u[2]

\* C30: every solution file of the local directory dated after the
\* installation day ends up in df_rh, in whatever order the files arrived:
\* at any moment the epochs of such a file are either in the pickle already or newer than
\* the pickle's last row, so that the next run reads it.
C30_LateFileRead ==
  sensor = "gnssir" =>
     \A f \in files :
        IsNewer(f, OldIdx(<<>>)) =>
           \/ \A i \in 1..Len(f.rows) : \E j \in 1..Len(pickle) : pickle[j].t = f.rows[i].t
           \/ IsNewer(f, OldIdx(pickle))

====
